---- MODULE Spec2Model ----
(***************************************************************************)
(* Model of src/main.py (Mahindra Personal RTO Dashboard): cell coercion,  *)
(* region-code extraction, the corpus loader with its time-based cache,    *)
(* and the aggregation views (monthly pivot, fiscal quarterly comparison,  *)
(* territory split).                                                       *)
(*                                                                         *)
(* Strings of the program are sequences of one-character strings, so that  *)
(* strip / upper / replace / regex search are computed, not assumed.       *)
(* Floating point values are kept exact: a number is an integer count of   *)
(* thousandths ("mil"), a percentage is a pair num/den.                    *)
(***************************************************************************)
EXTENDS Integers, Sequences, FiniteSets, TLC

VARIABLES
    cache,      \* _CACHE: df, last_load, files, months (+ the rebuild that wrote each)
    clock,      \* time.time()
    disk,       \* index of the data set currently on disk
    pc,         \* per request thread: position in its handler
    loc,        \* per request thread: locals of the handler / of load_all_years
    reqs,       \* number of requests received so far
    lastRead,   \* the corpus object handed out by the cache-hit reads since the
                \* latest replacement of _CACHE["df"], and how many there were
    arg,        \* input of the operation under study: a cell, a file name, a request
    res         \* its result, Pending before the call

vars == <<cache, clock, disk, pc, loc, reqs, lastRead, arg, res>>

None == [k |-> "none"]
Pending == [k |-> "pending"]

----------------------------------------------------------------------------
(* Characters and strings                                                  *)

LowerLetters == <<"a","b","c","d","e","f","g","h","i","j","k","l","m",
                  "n","o","p","q","r","s","t","u","v","w","x","y","z">>
UpperLetters == <<"A","B","C","D","E","F","G","H","I","J","K","L","M",
                  "N","O","P","Q","R","S","T","U","V","W","X","Y","Z">>
Digits == <<"0","1","2","3","4","5","6","7","8","9">>

IsDigit(c) == \E i \in 1..Len(Digits) : Digits[i] = c
DigitVal(c) == (CHOOSE i \in 1..Len(Digits) : Digits[i] = c) - 1
IsLetter(c) ==
    \E i \in 1..Len(UpperLetters) : UpperLetters[i] = c \/ LowerLetters[i] = c
IsSpace(c) == c = " "

\* str.upper() on one character
UpperChar(c) ==
    IF \E i \in 1..Len(LowerLetters) : LowerLetters[i] = c
    THEN UpperLetters[CHOOSE i \in 1..Len(LowerLetters) : LowerLetters[i] = c]
    ELSE c

\* str.upper()
Upper(s) == [i \in 1..Len(s) |-> UpperChar(s[i])]

\* str.strip(): drop leading and trailing whitespace
RECURSIVE LStrip(_)
LStrip(s) == IF s # <<>> /\ IsSpace(Head(s)) THEN LStrip(Tail(s)) ELSE s
RECURSIVE RStrip(_)
RStrip(s) ==
    IF s # <<>> /\ IsSpace(s[Len(s)]) THEN RStrip(SubSeq(s, 1, Len(s) - 1)) ELSE s
Strip(s) == LStrip(RStrip(s))

\* str.replace(c, "")
RECURSIVE RemoveChar(_, _)
RemoveChar(s, c) ==
    IF s = <<>> THEN <<>>
    ELSE IF Head(s) = c THEN RemoveChar(Tail(s), c)
    ELSE <<Head(s)>> \o RemoveChar(Tail(s), c)

\* value of a string of decimal digits
RECURSIVE DigitsValue(_)
DigitsValue(s) ==
    IF s = <<>> THEN 0
    ELSE DigitsValue(SubSeq(s, 1, Len(s) - 1)) * 10 + DigitVal(s[Len(s)])

AllDigits(s) == \A i \in 1..Len(s) : IsDigit(s[i])

RECURSIVE Concat(_)
Concat(ss) == IF ss = <<>> THEN <<>> ELSE Head(ss) \o Concat(Tail(ss))

\* all sequences over S of length 0..n
SeqsUpTo(S, n) == UNION {[1..k -> S] : k \in 0..n}

----------------------------------------------------------------------------
(* Cell values and _safe_int                                               *)
(* A cell is blank (NaN/None), a string, a finite number (in thousandths), *)
(* or an infinite float.                                                   *)

NaN == [k |-> "nan"]
Str(s) == [k |-> "str", s |-> s]
Num(mil) == [k |-> "num", mil |-> mil]
Inf == [k |-> "inf"]

\* thousandths contributed by the digits after the decimal point
FracMil(f) ==
    (IF Len(f) >= 1 THEN DigitVal(f[1]) * 100 ELSE 0)
    + (IF Len(f) >= 2 THEN DigitVal(f[2]) * 10 ELSE 0)
    + (IF Len(f) >= 3 THEN DigitVal(f[3]) ELSE 0)

\* an unsigned decimal literal: digits, digits "." digits, "." digits
ParseUnsigned(s) ==
    LET dots == {i \in 1..Len(s) : s[i] = "."}
    IN  IF dots = {}
        THEN IF s # <<>> /\ AllDigits(s) THEN Num(DigitsValue(s) * 1000) ELSE NaN
        ELSE IF Cardinality(dots) > 1 THEN NaN
        ELSE LET p == CHOOSE i \in dots : TRUE
                 ip == SubSeq(s, 1, p - 1)
                 fp == SubSeq(s, p + 1, Len(s))
             IN  IF AllDigits(ip) /\ AllDigits(fp) /\ Len(ip) + Len(fp) > 0
                 THEN Num(DigitsValue(ip) * 1000 + FracMil(fp))
                 ELSE NaN

\* pd.to_numeric(x, errors="coerce") on a scalar: numbers pass through, a string
\* is parsed (surrounding blanks tolerated, optional sign), anything else is NaN
ToNumeric(x) ==
    IF x.k = "str"
    THEN LET t == Strip(x.s)
         IN  IF t # <<>> /\ Head(t) = "-"
             THEN LET u == ParseUnsigned(Tail(t))
                  IN  IF u.k = "num" THEN Num(0 - u.mil) ELSE NaN
             ELSE ParseUnsigned(t)
    ELSE x

\* int(v): truncation toward zero; int(inf) raises OverflowError
IntOf(v) ==
    IF v.k = "inf" THEN [raised |-> TRUE, value |-> 0]
    ELSE [raised |-> FALSE,
          value |-> IF v.mil >= 0 THEN v.mil \div 1000 ELSE 0 - ((0 - v.mil) \div 1000)]

\* the body of _safe_int's try block: its value, or that it raised
SafeIntTry(x) ==
    IF x.k = "nan" THEN [raised |-> FALSE, value |-> 0]
    ELSE LET y == IF x.k = "str" THEN Str(RemoveChar(Strip(x.s), ",")) ELSE x
         IN  IF y.k = "str" /\ y.s = <<>> THEN [raised |-> FALSE, value |-> 0]
             ELSE LET v == ToNumeric(y)
                  IN  IF v.k = "nan" THEN [raised |-> FALSE, value |-> 0]
                      ELSE IntOf(v)

\* _safe_int: the bare except turns every exception into 0
SafeInt(x) ==
    LET r == SafeIntTry(x)
    IN  IF r.raised THEN [raised |-> FALSE, value |-> 0] ELSE r

----------------------------------------------------------------------------
(* Region code from a file name                                            *)

\* Path.stem: the name without its last suffix; a leading or trailing dot
\* starts no suffix
Stem(name) ==
    LET dots == {i \in 1..Len(name) : name[i] = "."}
    IN  IF dots = {} THEN name
        ELSE LET p == CHOOSE i \in dots : \A j \in dots : j <= i
             IN  IF 1 < p /\ p < Len(name) THEN SubSeq(name, 1, p - 1) ELSE name

\* does r"MH\d{2}" match s at position i
MatchesAt(s, i) ==
    /\ i + 3 <= Len(s)
    /\ s[i] = "M" /\ s[i + 1] = "H"
    /\ IsDigit(s[i + 2]) /\ IsDigit(s[i + 3])

\* re.search(r"(MH\d{2})", s): leftmost match, scanning from position i
RECURSIVE SearchFrom(_, _)
SearchFrom(s, i) ==
    IF i + 3 > Len(s) THEN None
    ELSE IF MatchesAt(s, i) THEN Str(SubSeq(s, i, i + 3))
    ELSE SearchFrom(s, i + 1)

ExtractRto_NoUpper(name) == SearchFrom(Stem(name), 1)

\* _extract_rto_from_filename
ExtractRtoFromFilename(name) == SearchFrom(Upper(Stem(name)), 1)

----------------------------------------------------------------------------
(* Configuration                                                           *)

ALL_MONTHS ==
    << <<"J","A","N">>, <<"F","E","B">>, <<"M","A","R">>, <<"A","P","R">>,
       <<"M","A","Y">>, <<"J","U","N">>, <<"J","U","L">>, <<"A","U","G">>,
       <<"S","E","P">>, <<"O","C","T">>, <<"N","O","V">>, <<"D","E","C">> >>
MONTH_SET == {ALL_MONTHS[i] : i \in 1..Len(ALL_MONTHS)}

JAN == ALL_MONTHS[1]
FEB == ALL_MONTHS[2]
MAR == ALL_MONTHS[3]
APR == ALL_MONTHS[4]
MAY == ALL_MONTHS[5]
JUN == ALL_MONTHS[6]
JUL == ALL_MONTHS[7]
AUG == ALL_MONTHS[8]
SEP == ALL_MONTHS[9]
OCT == ALL_MONTHS[10]
NOV == ALL_MONTHS[11]
DEC == ALL_MONTHS[12]

\* YEAR_DIRS, in dict (insertion) order
YEAR_DIRS == <<2024, 2025, 2026>>

RECHECK_SECONDS == 5

\* month_order: position of a month in ALL_MONTHS, 999 for anything else
MonthOrder(m) ==
    IF m \in MONTH_SET
    THEN (CHOOSE i \in 1..Len(ALL_MONTHS) : ALL_MONTHS[i] = m) - 1
    ELSE 999

----------------------------------------------------------------------------
(* Sheet parser: _parse_excel_format                                       *)
(* A file is [name, readable, grid]; grid is the sheet as read with        *)
(* header=None, a sequence of rows of equal length; read_excel raises on a *)
(* file that is not readable.                                              *)

\* str(x) of a cell: ints print their digits, floats "i.f"
RECURSIVE NatToStr(_)
NatToStr(n) ==
    IF n < 10 THEN <<Digits[n + 1]>> ELSE NatToStr(n \div 10) \o <<Digits[(n % 10) + 1]>>

StrOf(x) ==
    CASE x.k = "str" -> x.s
      [] x.k = "num" ->
            LET a == IF x.mil < 0 THEN 0 - x.mil ELSE x.mil
                sign == IF x.mil < 0 THEN <<"-">> ELSE <<>>
            IN  IF a % 1000 = 0 THEN sign \o NatToStr(a \div 1000)
                ELSE sign \o NatToStr(a \div 1000) \o <<".">> \o NatToStr((a % 1000) \div 100)
      [] x.k = "inf" -> <<"i","n","f">>
      [] OTHER -> <<"n","a","n">>

NotNa(x) == x.k # "nan"

\* str(x).strip().upper() in MONTH_SET, for a cell that is not NaN
IsMonthCell(x) == NotNa(x) /\ Upper(Strip(StrOf(x))) \in MONTH_SET

\* ' '.join(s.split()): runs of whitespace collapse to one blank, ends are trimmed
RECURSIVE CollapseFrom(_)
CollapseFrom(s) ==
    IF s = <<>> THEN <<>>
    ELSE IF IsSpace(Head(s))
         THEN LET r == LStrip(s) IN IF r = <<>> THEN <<>> ELSE <<" ">> \o CollapseFrom(r)
         ELSE <<Head(s)>> \o CollapseFrom(Tail(s))
Collapse(s) == CollapseFrom(Strip(s))

NumRows(grid) == Len(grid)
NumCols(grid) == IF grid = <<>> THEN 0 ELSE Len(grid[1])

\* a header scan that goes through every row of the sheet
MonthRow_Unbounded(grid) ==
    LET hits == {r \in 1..NumRows(grid) : \E c \in 1..NumCols(grid) : IsMonthCell(grid[r][c])}
    IN  IF hits = {} THEN 0 ELSE CHOOSE r \in hits : \A q \in hits : r <= q

\* lines 121-127: the first of the first 5 rows holding a month label, 0 if none
HeaderScanRows == 5
MonthRow(grid) ==
    LET lim == IF NumRows(grid) < HeaderScanRows THEN NumRows(grid) ELSE HeaderScanRows
        hits == {r \in 1..lim : \E c \in 1..NumCols(grid) : IsMonthCell(grid[r][c])}
    IN  IF hits = {} THEN 0 ELSE CHOOSE r \in hits : \A q \in hits : r <= q

\* lines 132-139: the columns of the header row that hold a month label
MonthCols(grid, mr) == {c \in 1..NumCols(grid) : IsMonthCell(grid[mr][c])}
MonthOfCol(grid, mr, c) == Upper(Strip(StrOf(grid[mr][c])))

\* a maker column that falls back to the first column
MakerCol_Zero(mcols) ==
    LET first == CHOOSE c \in mcols : \A d \in mcols : c <= d
    IN  IF first - 1 < 1 THEN 1 ELSE first - 1

\* lines 146-152: the maker column (1-based here: Python's index 1 is column 2)
MakerCol(mcols) ==
    LET first == CHOOSE c \in mcols : \A d \in mcols : c <= d
    IN  IF first - 1 < 1 THEN 2 ELSE first - 1

\* the set s as the ascending sequence of its elements
RECURSIVE Ascending(_)
Ascending(s) ==
    IF s = {} THEN <<>>
    ELSE LET m == CHOOSE x \in s : \A y \in s : x <= y
         IN  <<m>> \o Ascending(s \ {m})

Rec(y, rto, maker, month, regs) ==
    [cal_year |-> y, rto |-> rto, maker |-> maker, month |-> month, regs |-> regs]

\* a data row that emits no record for a count of 0
RowRecords_SkipZero(grid, r, mr, mcols, mk, rto, cal_year) ==
    LET maker_val == IF mk <= NumCols(grid) THEN grid[r][mk] ELSE NaN
        maker == Collapse(StrOf(maker_val))
        cols == Ascending(mcols)
    IN  IF ~NotNa(maker_val) \/ Len(maker) < 2 THEN <<>>
        ELSE SelectSeq([i \in 1..Len(cols) |->
                           Rec(cal_year, rto, maker, MonthOfCol(grid, mr, cols[i]),
                               SafeInt(grid[r][cols[i]]).value)],
                       LAMBDA rec : rec.regs # 0)

\* lines 163-177: the records of data row r
RowRecords(grid, r, mr, mcols, mk, rto, cal_year) ==
    LET maker_val == IF mk <= NumCols(grid) THEN grid[r][mk] ELSE NaN
        maker == Collapse(StrOf(maker_val))
        cols == Ascending(mcols)
    IN  IF ~NotNa(maker_val) \/ Len(maker) < 2 THEN <<>>
        ELSE [i \in 1..Len(cols) |->
                 Rec(cal_year, rto, maker, MonthOfCol(grid, mr, cols[i]),
                     SafeInt(grid[r][cols[i]]).value)]

RECURSIVE RowsFrom(_, _, _, _, _, _, _)
RowsFrom(grid, r, mr, mcols, mk, rto, cal_year) ==
    IF r > NumRows(grid) THEN <<>>
    ELSE RowRecords(grid, r, mr, mcols, mk, rto, cal_year)
         \o RowsFrom(grid, r + 1, mr, mcols, mk, rto, cal_year)

\* _parse_excel_format: the records of one file; empty on any failure
ParseExcelFormat(fp, cal_year) ==
    IF ~fp.readable THEN <<>>
    ELSE IF NumRows(fp.grid) = 0 \/ NumCols(fp.grid) = 0 THEN <<>>
    ELSE LET mr == MonthRow(fp.grid)
         IN  IF mr = 0 THEN <<>>
             ELSE LET mcols == MonthCols(fp.grid, mr)
                      rto == ExtractRtoFromFilename(fp.name)
                  IN  IF mcols = {} \/ rto = None THEN <<>>
                      ELSE RowsFrom(fp.grid, mr + 1, mr, mcols, MakerCol(mcols),
                                    rto.s, cal_year)

----------------------------------------------------------------------------
(* Corpus loader: the rebuild of load_all_years (lines 218-254)            *)
(* A disk is a function from the years of YEAR_DIRS to the directory of    *)
(* that year, [exists, files]: whether the directory exists, and its files *)
(* in path order.                                                          *)

\* FILE_GLOB = "MH*.xlsx"
XLSX == <<".","x","l","s","x">>
FileGlob(name) ==
    /\ Len(name) >= 2 + Len(XLSX)
    /\ SubSeq(name, 1, 2) = <<"M","H">>
    /\ SubSeq(name, Len(name) - Len(XLSX) + 1, Len(name)) = XLSX

\* sorted(dir_path.glob(FILE_GLOB))
GlobDir(dir) ==
    IF ~dir.exists THEN <<>> ELSE SelectSeq(dir.files, LAMBDA f : FileGlob(f.name))

\* lines 231-238 for the files of one year: the non-empty parts with their file
RECURSIVE PartsOfFiles(_, _)
PartsOfFiles(files, year) ==
    IF files = <<>> THEN <<>>
    ELSE LET dfp == ParseExcelFormat(Head(files), year)
         IN  (IF dfp = <<>> THEN <<>> ELSE << [file |-> Head(files).name, dfp |-> dfp] >>)
             \o PartsOfFiles(Tail(files), year)

\* lines 222-238: all parts, year directories in YEAR_DIRS order
RECURSIVE PartsOfYears(_, _)
PartsOfYears(d, i) ==
    IF i > Len(YEAR_DIRS) THEN <<>>
    ELSE PartsOfFiles(GlobDir(d[YEAR_DIRS[i]]), YEAR_DIRS[i]) \o PartsOfYears(d, i + 1)

\* lines 245-251: column normalisation, then the month filter
NormalizeRec(r) ==
    Rec(r.cal_year, Strip(Upper(r.rto)), Strip(r.maker), Strip(Upper(r.month)), r.regs)
Normalize(rows) ==
    SelectSeq([i \in 1..Len(rows) |-> NormalizeRec(rows[i])],
              LAMBDA r : r.month \in MONTH_SET)

\* lines 240-243: pd.concat(parts, ignore_index=True)
ConcatParts(parts) == Concat([i \in 1..Len(parts) |-> parts[i].dfp])

\* lines 253-254: sorted(found_months, key=month_order)
RECURSIVE SortMonths(_)
SortMonths(ms) ==
    IF ms = {} THEN <<>>
    ELSE LET m == CHOOSE x \in ms : \A y \in ms : MonthOrder(x) <= MonthOrder(y)
         IN  <<m>> \o SortMonths(ms \ {m})

FoundMonths(parts) ==
    UNION {{parts[i].dfp[j].month : j \in 1..Len(parts[i].dfp)} : i \in 1..Len(parts)}

\* a load that gives up, with nothing loaded, when one file cannot be read
Rebuild_Abort(d) ==
    LET parts == PartsOfYears(d, 1)
        failed == \E i \in 1..Len(YEAR_DIRS) :
                      \E j \in 1..Len(GlobDir(d[YEAR_DIRS[i]])) :
                          ~GlobDir(d[YEAR_DIRS[i]])[j].readable
    IN  IF failed THEN [rows |-> <<>>, used |-> <<>>, months |-> <<>>]
        ELSE [rows |-> Normalize(ConcatParts(parts)),
              used |-> [i \in 1..Len(parts) |-> parts[i].file],
              months |-> SortMonths(FoundMonths(parts))]

\* the three values a rebuild computes before it publishes them
Rebuild(d) ==
    LET parts == PartsOfYears(d, 1)
    IN  [rows |-> Normalize(ConcatParts(parts)),
         used |-> [i \in 1..Len(parts) |-> parts[i].file],
         months |-> SortMonths(FoundMonths(parts))]

----------------------------------------------------------------------------
(* The cache and the request threads                                       *)
(* FastAPI runs the "def" handlers on a thread pool, so several requests   *)
(* execute load_all_years at once; a thread can be pre-empted between any  *)
(* two statements.  pc names the line a thread executes next.              *)

\* two worker threads of the pool
Threads == {1, 2}
MaxTicks == 2
MaxRequests == 2

File(name, grid) == [name |-> name, readable |-> TRUE, grid |-> grid]
BadFile(name) == [name |-> name, readable |-> FALSE, grid |-> <<>>]
Dir(files) == [exists |-> TRUE, files |-> files]
NoDir == [exists |-> FALSE, files |-> <<>>]

MH27xlsx == <<"M","H","2","7">> \o XLSX
MH31xlsx == <<"M","H","3","1">> \o XLSX
TATA == <<"T","A","T","A">>
MakerHdr == Str(<<"M","a","k","e","r">>)

\* the data sets the environment puts on disk
DiskImages ==
    << [y \in {2024, 2025, 2026} |->
           CASE y = 2025 ->
                  Dir(<< File(MH27xlsx, << <<MakerHdr, Str(<<" ","j","a","n">>)>>,
                                          <<Str(TATA), Num(5000)>> >>) >>)
             [] y = 2026 -> Dir(<<>>)
             [] OTHER -> NoDir],
       [y \in {2024, 2025, 2026} |->
           CASE y = 2025 ->
                  Dir(<< File(MH27xlsx, << <<MakerHdr, Str(JAN), Str(FEB)>>,
                                          <<Str(TATA), Num(5000), Str(<<"7">>)>> >>),
                         BadFile(MH31xlsx) >>)
             [] OTHER -> NoDir] >>

\* what a rebuild computes from each data set
Rebuilt == [d \in 1..Len(DiskImages) |-> Rebuild(DiskImages[d])]

\* _CACHE as the module defines it (line 69); wr names, for each field, the
\* rebuild (the id of its DataFrame) that wrote it, 0 for the initial value
EmptyCache ==
    [df |-> None, last_load |-> 0, files |-> <<>>, months |-> <<>>,
     wr |-> [df |-> 0, last_load |-> 0, files |-> 0, months |-> 0]]

DataFrame(id, rows) == [k |-> "df", id |-> id, rows |-> rows]

IdleLoc ==
    [h |-> "none", stage |-> 0, force |-> FALSE, now |-> 0,
     new |-> None, df |-> None, months |-> <<>>]

NoRead == [k |-> "none", n |-> 0]

\* identities of the DataFrame objects still referenced somewhere
IdOf(x) == IF x.k = "none" THEN {} ELSE {x.id}
LiveIds ==
    {cache.wr.df, cache.wr.last_load, cache.wr.files, cache.wr.months}
    \cup IdOf(cache.df) \cup IdOf(lastRead)
    \cup UNION {IdOf(loc[t].new) \cup IdOf(loc[t].df) : t \in Threads}
\* a new object is distinct from every live one
FreshId == CHOOSE i \in 1..(Cardinality(LiveIds) + 1) : i \notin LiveIds

\* the module as imported: the cache empty, no request running
IdleInit ==
    /\ cache = EmptyCache
    /\ clock = 0
    /\ pc = [t \in Threads |-> "idle"]
    /\ loc = [t \in Threads |-> IdleLoc]
    /\ reqs = 0
    /\ lastRead = NoRead

CacheInit == IdleInit /\ disk = 1

cacheVars == <<cache, clock, disk, pc, loc, reqs, lastRead>>

IsFresh_Inclusive(force, now, c) ==
    ~force /\ c.df # None /\ now - c.last_load <= RECHECK_SECONDS

\* line 211: the cached corpus is served
IsFresh(force, now, c) ==
    ~force /\ c.df # None /\ now - c.last_load < RECHECK_SECONDS

\* a request arrives, is given to the first idle worker (the workers are
\* interchangeable), and its first load_all_years call reads the clock (line
\* 209): "reload" is /reload and startup (force=True); "main" is the dashboard
\* page (load_all_years(), get_rtos(), get_available_months())
Begin(t, h) ==
    /\ pc[t] = "idle"
    /\ \A u \in Threads : u < t => pc[u] # "idle"
    /\ reqs < MaxRequests
    /\ reqs' = reqs + 1
    /\ pc' = [pc EXCEPT ![t] = "L211"]
    /\ loc' = [loc EXCEPT ![t] = [IdleLoc EXCEPT !.h = h, !.stage = 1,
                                                 !.force = (h = "reload"),
                                                 !.now = clock]]
    /\ UNCHANGED <<cache, clock, disk, lastRead, arg, res>>

\* line 209, in the call get_rtos makes: now = time.time()
L209(t) ==
    /\ pc[t] = "L209"
    /\ pc' = [pc EXCEPT ![t] = "L211"]
    /\ loc' = [loc EXCEPT ![t].now = clock]
    /\ UNCHANGED <<cache, clock, disk, lastRead, reqs, arg, res>>

\* lines 211-254: serve the cache; or else parse every file and build the new
\* DataFrame, file list and months list, which lines 256-259 then publish
L211(t) ==
    /\ pc[t] = "L211"
    /\ IF IsFresh(loc[t].force, loc[t].now, cache)
       THEN /\ pc' = [pc EXCEPT ![t] = "L212"]
            /\ loc' = loc
       ELSE /\ pc' = [pc EXCEPT ![t] = "L256"]
            /\ LET b == Rebuilt[disk]
               IN  loc' = [loc EXCEPT ![t].new =
                              [k |-> "new", id |-> FreshId,
                               df |-> DataFrame(FreshId, b.rows),
                               used |-> b.used, months |-> b.months]]
    /\ UNCHANGED <<cache, clock, disk, lastRead, reqs, arg, res>>

\* load_all_years returns obj to its caller in thread t
Return(t, obj) ==
    CASE loc[t].h = "reload" ->
            /\ pc' = [pc EXCEPT ![t] = "idle"]
            /\ loc' = [loc EXCEPT ![t] = IdleLoc]
      [] loc[t].h = "main" /\ loc[t].stage = 1 ->
            \* line 720: df = load_all_years(); next, get_rtos() loads again
            /\ pc' = [pc EXCEPT ![t] = "L209"]
            /\ loc' = [loc EXCEPT ![t].df = obj, ![t].stage = 2, ![t].new = None,
                                  ![t].now = 0]
      [] OTHER ->
            \* line 190, in get_rtos; next, get_available_months()
            /\ pc' = [pc EXCEPT ![t] = "L202"]
            /\ loc' = [loc EXCEPT ![t].new = None, ![t].now = 0]

CachedObject_Copy(c) == [c.df EXCEPT !.id = FreshId]

\* the object line 212 hands out
CachedObject(c) == c.df

\* line 212: return _CACHE["df"]
L212(t) ==
    /\ pc[t] = "L212"
    /\ Return(t, CachedObject(cache))
    /\ lastRead' = [k |-> "df", id |-> CachedObject(cache).id,
                    n |-> IF lastRead.n < 2 THEN lastRead.n + 1 ELSE 2]
    /\ UNCHANGED <<cache, clock, disk, reqs, arg, res>>

\* line 256: _CACHE["df"] = df
L256(t) ==
    /\ pc[t] = "L256"
    /\ cache' = [cache EXCEPT !.df = loc[t].new.df, !.wr.df = loc[t].new.id]
    /\ lastRead' = NoRead
    /\ pc' = [pc EXCEPT ![t] = "L257"]
    /\ UNCHANGED <<clock, disk, loc, reqs, arg, res>>

\* line 257: _CACHE["last_load"] = now
L257(t) ==
    /\ pc[t] = "L257"
    /\ cache' = [cache EXCEPT !.last_load = loc[t].now, !.wr.last_load = loc[t].new.id]
    /\ pc' = [pc EXCEPT ![t] = "L258"]
    /\ UNCHANGED <<clock, disk, loc, lastRead, reqs, arg, res>>

\* line 258: _CACHE["files"] = used
L258(t) ==
    /\ pc[t] = "L258"
    /\ cache' = [cache EXCEPT !.files = loc[t].new.used, !.wr.files = loc[t].new.id]
    /\ pc' = [pc EXCEPT ![t] = "L259"]
    /\ UNCHANGED <<clock, disk, loc, lastRead, reqs, arg, res>>

\* lines 259-266: _CACHE["months"] = sorted_months; return df
L259(t) ==
    /\ pc[t] = "L259"
    /\ cache' = [cache EXCEPT !.months = loc[t].new.months, !.wr.months = loc[t].new.id]
    /\ Return(t, loc[t].new.df)
    /\ UNCHANGED <<clock, disk, lastRead, reqs, arg, res>>

\* get_available_months, lines 200-205
GetAvailableMonths(c) == IF c.months # <<>> THEN c.months ELSE ALL_MONTHS

\* line 723: months = get_available_months()
L202(t) ==
    /\ pc[t] = "L202"
    /\ loc' = [loc EXCEPT ![t].months = GetAvailableMonths(cache)]
    /\ pc' = [pc EXCEPT ![t] = "L747"]
    /\ UNCHANGED <<cache, clock, disk, lastRead, reqs, arg, res>>

\* lines 737-787: the page is rendered from df and months and sent
L747(t) ==
    /\ pc[t] = "L747"
    /\ pc' = [pc EXCEPT ![t] = "idle"]
    /\ loc' = [loc EXCEPT ![t] = IdleLoc]
    /\ UNCHANGED <<cache, clock, disk, lastRead, reqs, arg, res>>

\* time passes: the instants observed are one second before and exactly at
\* each multiple of the recheck interval (0, 4, 5, 9, 10, ...)
Instant(n) == (n \div 2) * RECHECK_SECONDS + (n % 2) * (RECHECK_SECONDS - 1)
Tick ==
    /\ clock < Instant(MaxTicks)
    /\ clock' = clock + (IF clock % RECHECK_SECONDS = 0 THEN RECHECK_SECONDS - 1 ELSE 1)
    /\ UNCHANGED <<cache, disk, pc, loc, lastRead, reqs, arg, res>>

\* the files on disk are replaced; the disk is read by line 211's rebuild only,
\* so the change is taken when a call is about to reach that line
ChangeDisk ==
    /\ disk < Len(DiskImages)
    /\ \E t \in Threads : pc[t] = "L211"
    /\ disk' = disk + 1
    /\ UNCHANGED <<cache, clock, pc, loc, lastRead, reqs, arg, res>>

Init == CacheInit /\ arg = None /\ res = Pending

Next ==
    \/ \E t \in Threads : Begin(t, "reload")
    \/ \E t \in Threads : Begin(t, "main")
    \/ \E t \in Threads : L209(t)
    \/ \E t \in Threads : L211(t)
    \/ \E t \in Threads : L212(t)
    \/ \E t \in Threads : L256(t)
    \/ \E t \in Threads : L257(t)
    \/ \E t \in Threads : L258(t)
    \/ \E t \in Threads : L259(t)
    \/ \E t \in Threads : L202(t)
    \/ \E t \in Threads : L747(t)
    \/ Tick
    \/ ChangeDisk

Spec == Init /\ [][Next]_vars

----------------------------------------------------------------------------
(* Aggregation engine: helpers                                             *)

\* characters in code point order, for the ordering of strings
CodePoints ==
    <<" ", "&", ",", "-", ".">> \o Digits \o UpperLetters \o <<"_">> \o LowerLetters
CharOrd(c) == CHOOSE i \in 1..Len(CodePoints) : CodePoints[i] = c

\* a < b for two strings (Python's str ordering)
RECURSIVE StrLess(_, _)
StrLess(a, b) ==
    IF b = <<>> THEN FALSE
    ELSE IF a = <<>> THEN TRUE
    ELSE IF Head(a) = Head(b) THEN StrLess(Tail(a), Tail(b))
    ELSE CharOrd(Head(a)) < CharOrd(Head(b))

\* sorted(set_of_strings)
RECURSIVE SortStrings(_)
SortStrings(ss) ==
    IF ss = {} THEN <<>>
    ELSE LET m == CHOOSE x \in ss : \A y \in ss \ {x} : StrLess(x, y)
         IN  <<m>> \o SortStrings(ss \ {m})

\* insert x into the descending sequence srt, behind every element whose key
\* is not smaller: a stable descending sort keeps equal keys in input order
RECURSIVE InsertDesc(_, _)
InsertDesc(srt, x) ==
    IF srt = <<>> THEN <<x>>
    ELSE IF Head(srt).key >= x.key THEN <<Head(srt)>> \o InsertDesc(Tail(srt), x)
    ELSE <<x>> \o srt

\* sorted(xs, key=..., reverse=True), and sort_values(ascending=False) on a
\* frame of fewer than 16 rows; the elements carry their sort key as .key
RECURSIVE SortDesc(_)
SortDesc(xs) ==
    IF xs = <<>> THEN <<>>
    ELSE InsertDesc(SortDesc(SubSeq(xs, 1, Len(xs) - 1)), xs[Len(xs)])

\* Series.sum() of the regs column
RECURSIVE SumRegs(_)
SumRegs(rows) == IF rows = <<>> THEN 0 ELSE Head(rows).regs + SumRegs(Tail(rows))

RECURSIVE SumSeq(_)
SumSeq(xs) == IF xs = <<>> THEN 0 ELSE Head(xs) + SumSeq(Tail(xs))

MakersOf(rows) == {rows[i].maker : i \in 1..Len(rows)}

\* does string s contain string sub
Contains(s, sub) ==
    \E i \in 1..(Len(s) - Len(sub) + 1) : SubSeq(s, i, i + Len(sub) - 1) = sub

MAHINDRA == <<"M","A","H","I","N","D","R","A">>

Abs(n) == IF n < 0 THEN 0 - n ELSE n
RECURSIVE GCD(_, _)
GCD(a, b) == IF b = 0 THEN a ELSE GCD(b, a % b)

\* the fraction n/d (d > 0) in lowest terms
Frac(n, d) ==
    LET g == GCD(Abs(n), d)
    IN  [num |-> IF n < 0 THEN 0 - (Abs(n) \div g) ELSE n \div g, den |-> d \div g]

\* a quotient a/b*100 kept exact as the fraction num/den
Pct(a, b) == Frac(a * 100, b)
Whole(n) == [num |-> n, den |-> 1]

\* the request parameters year and rto: "ALL" or a value
ALL == [k |-> "all"]
Only(v) == [k |-> "only", v |-> v]

\* dd = df.copy(); dd = dd[dd["rto"] == rto] unless rto is "ALL"
ByRto(rows, rto) ==
    IF rto.k = "all" THEN rows ELSE SelectSeq(rows, LAMBDA r : r.rto = rto.v)
ByYear(rows, year) ==
    IF year.k = "all" THEN rows ELSE SelectSeq(rows, LAMBDA r : r.cal_year = year.v)

----------------------------------------------------------------------------
(* (a) Monthly pivot: main, lines 737-783                                  *)

PivotSum_Last(dd, maker, month) ==
    LET hit == SelectSeq(dd, LAMBDA r : r.maker = maker /\ r.month = month)
    IN  IF hit = <<>> THEN 0 ELSE hit[Len(hit)].regs

\* line 747: one cell of pivot_table(index maker, columns month, aggfunc="sum",
\* fill_value=0)
PivotSum(dd, maker, month) ==
    SumRegs(SelectSeq(dd, LAMBDA r : r.maker = maker /\ r.month = month))

\* line 772: the count an entity row displays
ShownCount(v) == IF v > 0 THEN v ELSE 0

\* lines 747-750: the row of one maker: its counts for the displayed months
\* and their TOTAL
PivotRow(dd, months, maker) ==
    LET raw == [i \in 1..Len(months) |-> PivotSum(dd, maker, months[i])]
    IN  [maker |-> maker, raw |-> raw, total |-> SumSeq(raw), key |-> SumSeq(raw)]

\* the dashboard table: entity rows ordered by TOTAL, then the grand-total row
MonthlyPivot(rows, months, year, rto) ==
    LET dd == ByRto(ByYear(rows, year), rto)
    IN  IF dd = <<>> THEN [k |-> "nodata"]
        ELSE
        LET index == SortStrings(MakersOf(dd))
            pivot_counts ==
                SortDesc([i \in 1..Len(index) |-> PivotRow(dd, months, index[i])])
            month_totals ==
                [j \in 1..Len(months) |->
                    SumSeq([i \in 1..Len(pivot_counts) |-> pivot_counts[i].raw[j]])]
            grand_total == SumSeq([i \in 1..Len(pivot_counts) |-> pivot_counts[i].total])
        IN  [k |-> "pivot",
             months |-> months,
             rows |-> [i \in 1..Len(pivot_counts) |->
                         [maker |-> pivot_counts[i].maker,
                          raw |-> pivot_counts[i].raw,
                          count |-> [j \in 1..Len(months) |->
                                        ShownCount(pivot_counts[i].raw[j])],
                          pct |-> [j \in 1..Len(months) |->
                                      IF month_totals[j] > 0
                                      THEN Pct(ShownCount(pivot_counts[i].raw[j]),
                                               month_totals[j])
                                      ELSE Whole(0)],
                          total |-> pivot_counts[i].total]],
             total_row |->
                 [count |-> month_totals,
                  pct |-> [j \in 1..Len(months) |->
                              IF grand_total > 0 THEN Pct(month_totals[j], grand_total)
                              ELSE Whole(0)],
                  total |-> grand_total]]

----------------------------------------------------------------------------
(* (b) Fiscal quarterly comparison: quarterly_analysis, lines 804-953      *)

\* quarters_info, lines 813-818
QUARTERS == << <<APR, MAY, JUN>>, <<JUL, AUG, SEP>>, <<OCT, NOV, DEC>>, <<JAN, FEB, MAR>> >>

AprToDec == {APR, MAY, JUN, JUL, AUG, SEP, OCT, NOV, DEC}
JanToMar == {JAN, FEB, MAR}

\* windows that are the calendar years
InFiscal_Calendar(r, y) == r.cal_year = y

\* the fiscal year that ends in March of year y: lines 821-829 with y = 2025
\* (F25) and y = 2026 (F26)
InFiscal(r, y) ==
    \/ r.cal_year = y - 1 /\ r.month \in AprToDec
    \/ r.cal_year = y /\ r.month \in JanToMar

SeqToSet(xs) == {xs[i] : i \in 1..Len(xs)}

\* lines 831-832
QuarterRows(dd, y, q_months) ==
    SelectSeq(dd, LAMBDA r : InFiscal(r, y) /\ r.month \in SeqToSet(q_months))

OfMaker(rows, maker) == SelectSeq(rows, LAMBDA r : r.maker = maker)
OfMakers(rows, makers) == SelectSeq(rows, LAMBDA r : r.maker \in makers)
OfMonth(rows, month) == SelectSeq(rows, LAMBDA r : r.month = month)

GrowthOf_ZeroBase(prior, current) ==
    IF prior > 0 THEN Pct(current - prior, prior) ELSE Whole(0)

\* line 864: growth of an entity row
GrowthOf(prior, current) ==
    IF prior > 0 THEN Pct(current - prior, prior)
    ELSE IF current > 0 THEN Whole(100) ELSE Whole(0)

\* lines 906 and 930: growth of the remaining row and of the market row
GrowthOfAggregate(prior, current) ==
    IF prior > 0 THEN Pct(current - prior, prior) ELSE Whole(0)

\* lines 855-865: maker_summary, in the (sorted) order of all_makers
MakerSummary(f25_q, f26_q) ==
    LET all_makers == SortStrings(MakersOf(f25_q) \cup MakersOf(f26_q))
        entry(m) ==
            LET f25_total == SumRegs(OfMaker(f25_q, m))
                f26_total == SumRegs(OfMaker(f26_q, m))
            IN  [maker |-> m, f25_total |-> f25_total, f26_total |-> f26_total,
                 growth |-> GrowthOf(f25_total, f26_total), key |-> f25_total]
    IN  SelectSeq([i \in 1..Len(all_makers) |-> entry(all_makers[i])],
                  LAMBDA e : e.f25_total > 0 \/ e.f26_total > 0)

\* lines 869-870: the number of individually ranked makers
TopN == 10

\* the month cells of one fiscal year in a row of the table
MonthCells(rows, q_months, clamp) ==
    [j \in 1..Len(q_months) |->
        LET v == SumRegs(OfMonth(rows, q_months[j]))
        IN  IF clamp THEN ShownCount(v) ELSE v]

\* lines 904-925: the cells of the "Remaining Mfg" row
RemainingCells(remaining, f25_q, f26_q, q_months) ==
    LET remaining_makers == {remaining[i].maker : i \in 1..Len(remaining)}
        remaining_f25_total == SumSeq([i \in 1..Len(remaining) |-> remaining[i].f25_total])
        remaining_f26_total == SumSeq([i \in 1..Len(remaining) |-> remaining[i].f26_total])
    IN  [rank |-> 11,
         f25 |-> MonthCells(OfMakers(f25_q, remaining_makers), q_months, TRUE),
         f25_total |-> remaining_f25_total,
         f26 |-> MonthCells(OfMakers(f26_q, remaining_makers), q_months, TRUE),
         f26_total |-> remaining_f26_total,
         growth |-> GrowthOfAggregate(remaining_f25_total, remaining_f26_total)]

RemainingRow_Always(remaining, f25_q, f26_q, q_months) ==
    << RemainingCells(remaining, f25_q, f26_q, q_months) >>

\* lines 903-926: the row is printed only if remaining_makers is not empty
RemainingRow(remaining, f25_q, f26_q, q_months) ==
    IF remaining = <<>> THEN <<>>
    ELSE << RemainingCells(remaining, f25_q, f26_q, q_months) >>

\* the table of one quarter: lines 820-950
QuarterTable(dd, q_months) ==
    LET f25_q == QuarterRows(dd, 2025, q_months)
        f26_q == QuarterRows(dd, 2026, q_months)
        sorted_makers == SortDesc(MakerSummary(f25_q, f26_q))
        top_10 == SubSeq(sorted_makers, 1,
                         IF Len(sorted_makers) < TopN THEN Len(sorted_makers) ELSE TopN)
        remaining == SubSeq(sorted_makers, TopN + 1, Len(sorted_makers))
        tiv_f25_total == SumRegs(f25_q)
        tiv_f26_total == SumRegs(f26_q)
    IN  [q_months |-> q_months,
         top |-> [i \in 1..Len(top_10) |->
                    [rank |-> i,
                     maker |-> top_10[i].maker,
                     f25 |-> MonthCells(OfMaker(f25_q, top_10[i].maker), q_months, TRUE),
                     f25_total |-> top_10[i].f25_total,
                     f26 |-> MonthCells(OfMaker(f26_q, top_10[i].maker), q_months, TRUE),
                     f26_total |-> top_10[i].f26_total,
                     growth |-> top_10[i].growth]],
         remaining |-> RemainingRow(remaining, f25_q, f26_q, q_months),
         tiv |-> [rank |-> 12,
                  f25 |-> MonthCells(f25_q, q_months, FALSE),
                  f25_total |-> tiv_f25_total,
                  f26 |-> MonthCells(f26_q, q_months, FALSE),
                  f26_total |-> tiv_f26_total,
                  growth |-> GrowthOfAggregate(tiv_f25_total, tiv_f26_total)]]

\* the page: "no data" for an empty selection, else the four tables
QuarterlyAnalysis(rows, rto) ==
    LET dd == ByRto(rows, rto)
    IN  IF dd = <<>> THEN [k |-> "nodata"]
        ELSE [k |-> "quarterly",
              tables |-> [q \in 1..Len(QUARTERS) |-> QuarterTable(dd, QUARTERS[q])]]

----------------------------------------------------------------------------
(* (c) Territory split: unnati_pacl_page, lines 976-1089                   *)

Alloc(rto, unnati, pacl) == [rto |-> rto, Unnati |-> unnati, PACL |-> pacl]
MH(a, b) == <<"M", "H", a, b>>

\* a table in which the two weights of MH31 do not sum to 100
RTO_ALLOCATIONS_Unbalanced ==
    << Alloc(MH("2","7"), 100, 0),  Alloc(MH("2","9"), 100, 0),
       Alloc(MH("3","1"), 60, 60),  Alloc(MH("3","2"), 0, 100),
       Alloc(MH("3","3"), 0, 100),  Alloc(MH("3","4"), 0, 100),
       Alloc(MH("3","5"), 0, 100),  Alloc(MH("3","6"), 0, 100),
       Alloc(MH("4","0"), 60, 40),  Alloc(MH("4","9"), 60, 40) >>

\* RTO_ALLOCATIONS, lines 43-54, in dict order
RTO_ALLOCATIONS ==
    << Alloc(MH("2","7"), 100, 0),  Alloc(MH("2","9"), 100, 0),
       Alloc(MH("3","1"), 60, 40),  Alloc(MH("3","2"), 0, 100),
       Alloc(MH("3","3"), 0, 100),  Alloc(MH("3","4"), 0, 100),
       Alloc(MH("3","5"), 0, 100),  Alloc(MH("3","6"), 0, 100),
       Alloc(MH("4","0"), 60, 40),  Alloc(MH("4","9"), 60, 40) >>

\* line 1010: the rows of the highlighted maker
IsMahindra(r) == Contains(Upper(r.maker), MAHINDRA)

DealerStep_NoHighlight(acc, data, a) ==
    LET rto_data == SelectSeq(data, LAMBDA r : r.rto = a.rto)
        rto_all_total == SumRegs(rto_data)
    IN  [unnati_all |-> acc.unnati_all + rto_all_total * a.Unnati,
         unnati_mah |-> acc.unnati_mah + rto_all_total * a.Unnati,
         pacl_all |-> acc.pacl_all + rto_all_total * a.PACL,
         pacl_mah |-> acc.pacl_mah + rto_all_total * a.PACL]

\* lines 1007-1018: one turn of the loop over RTO_ALLOCATIONS; the four sums
\* are kept in hundredths (total * percent)
DealerStep(acc, data, a) ==
    LET rto_data == SelectSeq(data, LAMBDA r : r.rto = a.rto)
        rto_all_total == SumRegs(rto_data)
        rto_mah_total == SumRegs(SelectSeq(rto_data, IsMahindra))
    IN  [unnati_all |-> acc.unnati_all + rto_all_total * a.Unnati,
         unnati_mah |-> acc.unnati_mah + rto_mah_total * a.Unnati,
         pacl_all |-> acc.pacl_all + rto_all_total * a.PACL,
         pacl_mah |-> acc.pacl_mah + rto_mah_total * a.PACL]

RECURSIVE DealerLoop(_, _, _)
DealerLoop(acc, data, i) ==
    IF i > Len(RTO_ALLOCATIONS) THEN acc
    ELSE DealerLoop(DealerStep(acc, data, RTO_ALLOCATIONS[i]), data, i + 1)

\* calculate_dealer_totals, lines 1000-1025 (values in hundredths)
CalculateDealerTotals(data) ==
    DealerLoop([unnati_all |-> 0, unnati_mah |-> 0, pacl_all |-> 0, pacl_mah |-> 0],
               data, 1)

\* lines 987-998: the fiscal year the page takes as current
CurrentFiscal(year) ==
    IF year.k = "only" /\ year.v \in {2024, 2025, 2026} THEN year.v + 1 ELSE 2026

\* a share that is 100 when there is no market
ShareOf_Sentinel(x, y) == IF y > 0 THEN Pct(x, y) ELSE Whole(100)

\* x/y*100 for two values in hundredths, 0 unless y > 0
ShareOf(x, y) == IF y > 0 THEN Pct(x, y) ELSE Whole(0)

\* a - b for two fractions
FracMinus(a, b) == Frac(a.num * b.den - b.num * a.den, a.den * b.den)

UnnatiPaclPage(rows, year, rto) ==
    LET dd == ByRto(rows, rto)
    IN  IF dd = <<>> THEN [k |-> "nodata"]
        ELSE
        LET fy == CurrentFiscal(year)
            ly_data == SelectSeq(dd, LAMBDA r : InFiscal(r, fy - 1))
            cy_data == SelectSeq(dd, LAMBDA r : InFiscal(r, fy))
            ly_totals == CalculateDealerTotals(ly_data)
            cy_totals == CalculateDealerTotals(cy_data)
            ly_tiv_total == ly_totals.unnati_all + ly_totals.pacl_all
            cy_tiv_total == cy_totals.unnati_all + cy_totals.pacl_all
            ly_unnati_ms == ShareOf(ly_totals.unnati_mah, ly_tiv_total)
            cy_unnati_ms == ShareOf(cy_totals.unnati_mah, cy_tiv_total)
            ly_pacl_ms == ShareOf(ly_totals.pacl_mah, ly_tiv_total)
            cy_pacl_ms == ShareOf(cy_totals.pacl_mah, cy_tiv_total)
        IN  [k |-> "territory",
             fy |-> fy,
             ly |-> ly_totals,
             cy |-> cy_totals,
             ly_unnati_ms |-> ly_unnati_ms, cy_unnati_ms |-> cy_unnati_ms,
             ly_pacl_ms |-> ly_pacl_ms, cy_pacl_ms |-> cy_pacl_ms,
             unnati_ms_change |-> FracMinus(cy_unnati_ms, ly_unnati_ms),
             pacl_ms_change |-> FracMinus(cy_pacl_ms, ly_pacl_ms),
             unnati_growth |->
                 IF ly_totals.unnati_mah > 0
                 THEN Pct(cy_totals.unnati_mah - ly_totals.unnati_mah, ly_totals.unnati_mah)
                 ELSE Whole(0),
             pacl_growth |->
                 IF ly_totals.pacl_mah > 0
                 THEN Pct(cy_totals.pacl_mah - ly_totals.pacl_mah, ly_totals.pacl_mah)
                 ELSE Whole(0)]

----------------------------------------------------------------------------
(* Specification of the aggregation views: the corpus is rebuilt from a    *)
(* data set of workbooks, published, and one page is requested.            *)

MaxMakers == 12
MaxBlocks == 2

MAHINDRA_NAME == <<"M","a","h","i","n","d","r","a">>
MakerName(i) ==
    IF i = 1 THEN MAHINDRA_NAME
    ELSE <<"T">> \o (IF i < 10 THEN <<"0">> ELSE <<>>) \o NatToStr(i)

\* the sheets of the workbooks: a region, the makers of its rows from top to
\* bottom, and the count cell of each row
Shapes ==
    << [rto |-> MH("2","7"),
        makers |-> [i \in 1..MaxMakers |-> i],
        cells |-> [i \in 1..MaxMakers |-> Num(100 * (MaxMakers + 1 - i) * 1000)]],
       [rto |-> MH("3","1"),
        makers |-> <<3, 1, 2, 4>>,
        cells |-> <<Num(500000), Num(300000), Str(<<"2","0","0">>), Num(0)>>],
       [rto |-> MH("9","9"),
        makers |-> <<1, 2, 3, 4>>,
        cells |-> <<Str(<<"-","5">>), Num(100000), Num(0), Num(50000)>>] >>

\* the year directory and the month column of a workbook
Slots == << <<2024, APR>>, <<2025, JAN>>, <<2025, APR>>, <<2026, APR>> >>

NumBlocks == Len(Slots) * Len(Shapes)
SlotOf(b) == Slots[((b - 1) \div Len(Shapes)) + 1]
ShapeOf(b) == Shapes[((b - 1) % Len(Shapes)) + 1]

\* the workbook of block b, the n-th of the data set
Workbook(b, n) ==
    File(ShapeOf(b).rto \o <<"_">> \o NatToStr(n) \o XLSX,
         << <<MakerHdr, Str(SlotOf(b)[2])>> >>
         \o [i \in 1..Len(ShapeOf(b).cells) |->
                <<Str(MakerName(ShapeOf(b).makers[i])), ShapeOf(b).cells[i]>>])

\* sorted(files): by name
RECURSIVE SortFiles(_)
SortFiles(fs) ==
    IF fs = {} THEN <<>>
    ELSE LET m == CHOOSE x \in fs : \A y \in fs \ {x} : StrLess(x.name, y.name)
         IN  <<m>> \o SortFiles(fs \ {m})

\* the data set that holds the workbooks of the blocks bs
DiskOf(bs) ==
    [y \in {2024, 2025, 2026} |->
        LET fs == {Workbook(bs[n], n) : n \in {n \in 1..Len(bs) : SlotOf(bs[n])[1] = y}}
        IN  IF fs = {} THEN NoDir ELSE Dir(SortFiles(fs))]

\* the data sets are numbered behind DiskImages: the sequences of at most
\* MaxBlocks blocks, in order of length
RECURSIVE Pow(_, _)
Pow(b, e) == IF e = 0 THEN 1 ELSE b * Pow(b, e - 1)
RECURSIVE SeqsShorter(_)
SeqsShorter(l) == IF l = 0 THEN 0 ELSE SeqsShorter(l - 1) + Pow(NumBlocks, l - 1)
NumBlockSeqs == SeqsShorter(MaxBlocks + 1)
BlocksOfIndex(k) ==
    LET l == CHOOSE l \in 0..MaxBlocks : SeqsShorter(l) <= k /\ k < SeqsShorter(l + 1)
        r == k - SeqsShorter(l)
    IN  [i \in 1..l |-> ((r \div Pow(NumBlocks, l - i)) % NumBlocks) + 1]
DiskAt(d) ==
    IF d <= Len(DiskImages) THEN DiskImages[d]
    ELSE DiskOf(BlocksOfIndex(d - Len(DiskImages) - 1))
AggDisks == (Len(DiskImages) + 1)..(Len(DiskImages) + NumBlockSeqs)

\* the cache after one complete rebuild (lines 256-259) at clock value now
Published(b, now) ==
    [df |-> DataFrame(1, b.rows), last_load |-> now, files |-> b.used,
     months |-> b.months,
     wr |-> [df |-> 1, last_load |-> 1, files |-> 1, months |-> 1]]

YearParams == {ALL, Only(2024), Only(2025), Only(2026)}
RtoParams == {ALL, Only(MH("2","7")), Only(MH("3","1"))}

\* GET /: lines 719-787, served from the fresh cache
ViewMain(year, rto) ==
    /\ res = Pending
    /\ IsFresh(FALSE, clock, cache)
    /\ arg' = [view |-> "main", year |-> year, rto |-> rto]
    /\ res' = MonthlyPivot(CachedObject(cache).rows, GetAvailableMonths(cache), year, rto)
    /\ UNCHANGED cacheVars

\* GET /quarterly: lines 791-955
ViewQuarterly(rto) ==
    /\ res = Pending
    /\ IsFresh(FALSE, clock, cache)
    /\ arg' = [view |-> "quarterly", year |-> ALL, rto |-> rto]
    /\ res' = QuarterlyAnalysis(CachedObject(cache).rows, rto)
    /\ UNCHANGED cacheVars

\* GET /unnati-pacl: lines 959-1094
ViewUnnati(year, rto) ==
    /\ res = Pending
    /\ IsFresh(FALSE, clock, cache)
    /\ arg' = [view |-> "unnati", year |-> year, rto |-> rto]
    /\ res' = UnnatiPaclPage(CachedObject(cache).rows, year, rto)
    /\ UNCHANGED cacheVars

InitAgg ==
    /\ disk \in AggDisks
    /\ \E b \in {Rebuild(DiskAt(disk))} : cache = Published(b, 0)
    /\ clock = 0
    /\ pc = [t \in Threads |-> "idle"]
    /\ loc = [t \in Threads |-> IdleLoc]
    /\ reqs = 0
    /\ lastRead = NoRead
    /\ arg = None /\ res = Pending

NextAgg ==
    \/ \E year \in YearParams, rto \in RtoParams : ViewMain(year, rto)
    \/ \E rto \in RtoParams : ViewQuarterly(rto)
    \/ \E year \in YearParams, rto \in RtoParams : ViewUnnati(year, rto)

SpecAgg == InitAgg /\ [][NextAgg]_vars

----------------------------------------------------------------------------
(* Specifications of the pure helpers: the input is drawn in the initial   *)
(* state, the one action applies the helper.                               *)

MaxCellLen == 4
CellChars == {" ", ",", "-", "1", "5", ".", "x"}
CellValues ==
    {NaN, Inf}
    \cup {Num(m) : m \in {-2500, -1000, -500, 0, 500, 1000, 2500, 12000}}
    \cup {Str(t) : t \in SeqsUpTo(CellChars, MaxCellLen)}

CallSafeInt ==
    /\ res = Pending
    /\ res' = SafeInt(arg)
    /\ UNCHANGED <<cacheVars, arg>>

InitCoerce == CacheInit /\ arg \in CellValues /\ res = Pending
SpecCoerce == InitCoerce /\ [][CallSafeInt]_vars

MaxPieces == 3
NamePieces ==
    { <<"M","H","2","7">>, <<"m","h","3","1">>, <<"K","A","0","5">>,
      <<"M","H","2">>, <<"7">>, <<"_">>, <<".","x">> }
FileNames == {Concat(ps) : ps \in SeqsUpTo(NamePieces, MaxPieces)}

CallExtractRto ==
    /\ res = Pending
    /\ res' = ExtractRtoFromFilename(arg)
    /\ UNCHANGED <<cacheVars, arg>>

InitRegion == CacheInit /\ arg \in FileNames /\ res = Pending
SpecRegion == InitRegion /\ [][CallExtractRto]_vars

----------------------------------------------------------------------------
(* Specification of the sheet parser: a workbook and a calendar year are   *)
(* drawn in the initial state, the one action parses the workbook.         *)

MaxPad == 5

\* the cells of the sheets: blank, two month labels, a name of one character,
\* a name to collapse, and a number written as text
ParseCells ==
    {NaN, Str(<<" ","j","a","n">>), Str(FEB), Str(<<"A">>),
     Str(<<" ","A"," "," ","B">>), Str(<<"1","2">>)}

RowsOf(w) == [1..w -> ParseCells]

\* one or two rows of free cells
Bodies(w) == {<<h>> : h \in RowsOf(w)} \cup {<<h, d>> : h \in RowsOf(w), d \in RowsOf(w)}

\* two fixed rows behind the free ones: a maker with counts, and a maker of
\* one character
TrailRows(w) ==
    << [c \in 1..w |-> IF c = 1 THEN Str(<<"Z","9">>) ELSE Str(<<"1","2">>)],
       [c \in 1..w |-> IF c = 1 THEN Str(<<"Q">>) ELSE Str(<<"1","2">>)] >>

\* a serial-number column in front of the rows
WithLead(rows) == [i \in 1..Len(rows) |-> <<Str(<<"N","o">>)>> \o rows[i]]

BlankRows(k, w) == [i \in 1..k |-> [c \in 1..w |-> NaN]]

\* the number of blank rows on top of the sheet
Pads == {0, MaxPad - 1, MaxPad}

ParseGrids(pads) ==
    UNION {{BlankRows(k, w) \o b \o t, BlankRows(k, w + 1) \o WithLead(b \o t)} :
           <<k, w, b, t>> \in
               {<<k, w, b, t>> \in pads \X {1, 2} \X (Bodies(1) \cup Bodies(2))
                                        \X {<<>>, TrailRows(1), TrailRows(2)} :
                   /\ Len(b[1]) = w
                   /\ t # <<>> => Len(t[1]) = w}}

\* the file name and the calendar year of the call
ParseCalls ==
    { << <<"m","h","3","1","_","x">> \o XLSX, 2024 >>,
      << <<"M","H","A","B">> \o XLSX, 2026 >> }

\* _parse_excel_format(fp, cal_year), lines 109-184
CallParse ==
    /\ res = Pending
    /\ res' = [k |-> "frame", rows |-> ParseExcelFormat(arg.fp, arg.cal_year)]
    /\ UNCHANGED <<cacheVars, arg>>

InitParse ==
    /\ CacheInit
    /\ arg \in {[fp |-> File(nc[1], g), cal_year |-> nc[2]] :
                g \in ParseGrids(Pads), nc \in ParseCalls}
    /\ res = Pending
SpecParse == InitParse /\ [][CallParse]_vars

----------------------------------------------------------------------------
(* Specification of the corpus load at startup: the year directories hold  *)
(* workbooks of several kinds, and startup() runs load_all_years(force)    *)
(* before any request is served.                                           *)

MaxDirFiles == 2

TotalHdr == Str(<<"T","o","t","a","l">>)

\* the workbooks a directory can hold: two that parse, one that cannot be
\* read, one without a month label, one whose name holds no region code and
\* one that FILE_GLOB does not match
LoadFiles ==
    { File(MH27xlsx, << <<MakerHdr, Str(<<" ","j","a","n">>), Str(FEB)>>,
                        <<Str(TATA), Num(5000), Str(<<"7">>)>> >>),
      File(MH("3","1") \o <<"_","b">> \o XLSX,
           << <<MakerHdr, Str(DEC), Str(<<"A","p","r">>)>>,
              <<Str(MAHINDRA_NAME), Num(3000), Num(0)>> >>),
      BadFile(MH("2","9") \o XLSX),
      File(MH("3","2") \o XLSX, << <<MakerHdr, TotalHdr>>, <<Str(TATA), Num(5000)>> >>),
      File(<<"M","H","x","x">> \o XLSX,
           << <<MakerHdr, Str(MAR)>>, <<Str(TATA), Num(9000)>> >>),
      File(<<"K","A","0","5">> \o XLSX,
           << <<MakerHdr, Str(MAY)>>, <<Str(TATA), Num(4000)>> >>) }

LoadDirs ==
    {NoDir} \cup {Dir(SortFiles(fs)) : fs \in {s \in SUBSET LoadFiles :
                                                  Cardinality(s) <= MaxDirFiles}}

\* the data sets: 2024 and 2025 hold any directory, 2026 is missing or empty
LoadDisks ==
    {[y \in {2024, 2025, 2026} |->
         CASE y = 2024 -> d1 [] y = 2025 -> d2 [] OTHER -> d3] :
     d1 \in LoadDirs, d2 \in LoadDirs, d3 \in {NoDir, Dir(<<>>)}}

\* startup(), lines 1179-1190: load_all_years(force=True) with no other thread
\* running; res keeps what the rebuild computed
Startup ==
    /\ res = Pending
    /\ res' = Rebuild(arg)
    /\ cache' = Published(res', clock)
    /\ UNCHANGED <<clock, disk, pc, loc, reqs, lastRead, arg>>

InitLoad == CacheInit /\ arg \in LoadDisks /\ res = Pending
SpecLoad == InitLoad /\ [][Startup]_vars

----------------------------------------------------------------------------
(* Claims                                                                  *)

\* the decision line 211 has to take, from the values the call reads
MustRebuild(t) ==
    \/ cache.df = None
    \/ loc[t].now - cache.last_load >= RECHECK_SECONDS
    \/ loc[t].force

\* C1: a call load(force) at clock value now rebuilds the corpus if and only if
\* the cached corpus is absent, or now - last_refresh_time >= 5, or force is
\* set; in every other case it builds nothing, leaves the cache alone and
\* returns the corpus that is cached.
C1_RebuildIff ==
    [][\A t \in Threads :
          /\ (pc[t] = "L211" /\ pc'[t] # "L211") =>
                /\ MustRebuild(t) <=>
                      /\ pc'[t] = "L256"
                      /\ loc'[t].new.k = "new"
                      /\ loc'[t].new.df.rows = Rebuilt[disk].rows
                /\ ~MustRebuild(t) <=>
                      /\ pc'[t] = "L212"
                      /\ loc'[t].new = None
                      /\ cache' = cache
          /\ (pc[t] = "L212" /\ pc'[t] # "L212") =>
                /\ cache' = cache
                /\ lastRead'.id = cache.df.id
                /\ loc[t].stage = 1 => loc'[t].df = cache.df
      ]_vars

\* a rebuild was started only because the interval had elapsed, and a cached
\* corpus is being served within the interval
C1_Witness ==
    /\ \E t \in Threads :
          /\ pc[t] = "L256" /\ ~loc[t].force /\ cache.df # None
          /\ loc[t].now - cache.last_load = RECHECK_SECONDS
    /\ \E t \in Threads :
          /\ pc[t] = "L212"
          /\ loc[t].now - cache.last_load = RECHECK_SECONDS - 1

\* C2: a load(force=false) served from the cache leaves every field of the
\* cache entry unchanged, and two such reads with no replacement of the cached
\* corpus between them return the same corpus object.
C2_HitReadFrame ==
    [][\A t \in Threads :
          /\ (pc[t] = "L211" /\ pc'[t] = "L212") => cache' = cache
          /\ (pc[t] = "L212" /\ pc'[t] # "L212") =>
                /\ cache' = cache
                /\ lastRead'.k = "df"
                /\ lastRead'.id = cache.df.id
                /\ lastRead.n > 0 => lastRead'.id = lastRead.id
                /\ loc[t].stage = 1 => loc'[t].df = cache.df
      ]_vars

\* two cache-hit reads in a row have returned the same object
C2_Witness ==
    /\ lastRead.n = 2
    /\ \E t \in Threads : loc[t].df.k = "df" /\ loc[t].df.id = lastRead.id
    /\ cache.df.id = lastRead.id

\* C3: whenever a reader is about to read the cache, the cached corpus, the
\* refresh time, the file list and the months list were all written by the
\* same rebuild.
C3_NoTornCache ==
    (\E t \in Threads : pc[t] \in {"L211", "L212", "L202"}) =>
        /\ cache.wr.df = cache.wr.last_load
        /\ cache.wr.df = cache.wr.files
        /\ cache.wr.df = cache.wr.months

\* C4: _safe_int returns an integer >= 0 and never raises.
C4_NonNegative ==
    res # Pending => (~res.raised /\ res.value >= 0)

\* the two-letter/two-digit tokens of s, by position
TokenAt(s, i) ==
    /\ i + 3 <= Len(s)
    /\ IsLetter(s[i]) /\ IsLetter(s[i + 1])
    /\ IsDigit(s[i + 2]) /\ IsDigit(s[i + 3])
FirstOf(s, hits) ==
    IF hits = {} THEN None
    ELSE LET i == CHOOSE x \in hits : \A y \in hits : x <= y
         IN  Str(SubSeq(s, i, i + 3))

\* C5 as stated: the first token of two letters and two digits in the
\* upper-cased stem is returned, whatever the letters; none if there is none.
C5_AnyTwoLetters ==
    res # Pending =>
        LET u == Upper(Stem(arg))
        IN  res = FirstOf(u, {i \in 1..Len(u) : TokenAt(u, i)})

\* C5 amended: the first occurrence of "MH" followed by two digits in the
\* upper-cased stem is returned; none if there is none.
C5_MHToken ==
    res # Pending =>
        LET u == Upper(Stem(arg))
        IN  res = FirstOf(u, {i \in 1..Len(u) :
                                 /\ i + 3 <= Len(u)
                                 /\ SubSeq(u, i, i + 1) = <<"M","H">>
                                 /\ IsDigit(u[i + 2]) /\ IsDigit(u[i + 3])})

\* a lower-case name holding two MH tokens yields the first, upper-cased
C5_Witness ==
    /\ res = Str(<<"M","H","3","1">>)
    /\ arg = <<"m","h","3","1","M","H","2","7",".","x">>

----------------------------------------------------------------------------
(* Claims on the aggregation views.  The expected values are computed from *)
(* the cached corpus record by record.                                     *)

Corpus == cache.df.rows

\* the records the filters of the request select
Selected(r) ==
    /\ arg.rto.k = "all" \/ r.rto = arg.rto.v
    /\ arg.view = "main" => (arg.year.k = "all" \/ r.cal_year = arg.year.v)

Regs(r) == r.regs

\* the sum of W over the selected records that satisfy P, the records at the
\* positions excl left out
SumWhere(excl, P(_), W(_)) ==
    SumSeq([k \in 1..Len(Corpus) |->
              IF k \notin excl /\ Selected(Corpus[k]) /\ P(Corpus[k])
              THEN W(Corpus[k]) ELSE 0])

SameTuple(a, b) ==
    a.cal_year = b.cal_year /\ a.rto = b.rto /\ a.maker = b.maker /\ a.month = b.month

\* positions of two selected records of the same (year, region, entity, month)
DuplicatePairs ==
    {p \in (1..Len(Corpus)) \X (1..Len(Corpus)) :
        /\ p[1] < p[2]
        /\ SameTuple(Corpus[p[1]], Corpus[p[2]])
        /\ Selected(Corpus[p[1]])}

InQuarter(r, y, q) == InFiscal(r, y) /\ r.month \in SeqToSet(QUARTERS[q])
FiscalTotal(row, y) == IF y = 2025 THEN row.f25_total ELSE row.f26_total

Configured(rto) == \E i \in 1..Len(RTO_ALLOCATIONS) : RTO_ALLOCATIONS[i].rto = rto
WeightOf(rto) ==
    RTO_ALLOCATIONS[CHOOSE i \in 1..Len(RTO_ALLOCATIONS) : RTO_ALLOCATIONS[i].rto = rto]
UnnatiPart(r) == r.regs * WeightOf(r.rto).Unnati
PaclPart(r) == r.regs * WeightOf(r.rto).PACL
WindowTotals(w) == IF w = "ly" THEN res.ly ELSE res.cy
WindowYear(w) == IF w = "ly" THEN res.fy - 1 ELSE res.fy

\* C6: two records of the same (year, region, entity, month) with counts a and
\* b are both counted: the pivot cell of their entity and month, the quarterly
\* total of their entity and the market total of their quarter, and the
\* territory totals of their window each hold a + b plus the counts of the
\* other records that belong there.
C6_DuplicatesSummed ==
    res.k \in {"pivot", "quarterly", "territory"} =>
        \A p \in DuplicatePairs :
            LET a == Corpus[p[1]]
                b == Corpus[p[2]]
                ab == {p[1], p[2]}
            IN  /\ res.k = "pivot" =>
                    \E i \in 1..Len(res.rows), j \in 1..Len(res.months) :
                        /\ res.rows[i].maker = a.maker
                        /\ res.months[j] = a.month
                        /\ res.rows[i].raw[j] =
                              a.regs + b.regs
                              + SumWhere(ab, LAMBDA r : r.maker = a.maker /\ r.month = a.month,
                                         Regs)
                /\ res.k = "quarterly" =>
                    \A q \in 1..Len(QUARTERS), y \in {2025, 2026} :
                        InQuarter(a, y, q) =>
                            /\ \A i \in 1..Len(res.tables[q].top) :
                                  res.tables[q].top[i].maker = a.maker =>
                                      FiscalTotal(res.tables[q].top[i], y) =
                                          a.regs + b.regs
                                          + SumWhere(ab, LAMBDA r : InQuarter(r, y, q)
                                                                    /\ r.maker = a.maker, Regs)
                            /\ FiscalTotal(res.tables[q].tiv, y) =
                                  a.regs + b.regs
                                  + SumWhere(ab, LAMBDA r : InQuarter(r, y, q), Regs)
                /\ res.k = "territory" =>
                    \A w \in {"ly", "cy"} :
                        (InFiscal(a, WindowYear(w)) /\ Configured(a.rto)) =>
                            LET In(r) == InFiscal(r, WindowYear(w)) /\ Configured(r.rto)
                                InMah(r) == In(r) /\ IsMahindra(r)
                                u == WeightOf(a.rto).Unnati
                                v == WeightOf(a.rto).PACL
                            IN  /\ WindowTotals(w).unnati_all =
                                      (a.regs + b.regs) * u + SumWhere(ab, In, UnnatiPart)
                                /\ WindowTotals(w).pacl_all =
                                      (a.regs + b.regs) * v + SumWhere(ab, In, PaclPart)
                                /\ IsMahindra(a) =>
                                      /\ WindowTotals(w).unnati_mah =
                                            (a.regs + b.regs) * u
                                            + SumWhere(ab, InMah, UnnatiPart)
                                      /\ WindowTotals(w).pacl_mah =
                                            (a.regs + b.regs) * v
                                            + SumWhere(ab, InMah, PaclPart)

\* the pivot shows a + b for two records with positive counts that come from
\* two workbooks
C6_Witness ==
    /\ res.k = "pivot"
    /\ Len(cache.files) = 2
    /\ \E p \in DuplicatePairs :
          /\ Corpus[p[1]].regs > 0 /\ Corpus[p[2]].regs > 0
          /\ \E i \in 1..Len(res.rows), j \in 1..Len(res.months) :
                /\ res.rows[i].maker = Corpus[p[1]].maker
                /\ res.months[j] = Corpus[p[1]].month
                /\ res.rows[i].raw[j] = Corpus[p[1]].regs + Corpus[p[2]].regs

\* C7: in the monthly pivot the displayed count cells of the entity rows add
\* up, month by month, to the cell of the grand-total row, and the TOTAL cells
\* of the entity rows add up to the grand total.
C7_ColumnSums ==
    res.k = "pivot" =>
        /\ \A j \in 1..Len(res.months) :
              SumSeq([i \in 1..Len(res.rows) |-> res.rows[i].count[j]])
                  = res.total_row.count[j]
        /\ SumSeq([i \in 1..Len(res.rows) |-> res.rows[i].total]) = res.total_row.total

\* C8: the growth of an entity row of a quarterly table is
\* (current - prior) / prior * 100 when prior > 0, 100 when prior = 0 and
\* current > 0, and 0 when both are 0.
C8_GrowthRule ==
    /\ GrowthOf(0, 0) = Whole(0)
    /\ res.k = "quarterly" =>
          \A q \in 1..Len(res.tables) : \A i \in 1..Len(res.tables[q].top) :
              LET prior == res.tables[q].top[i].f25_total
                  current == res.tables[q].top[i].f26_total
                  g == res.tables[q].top[i].growth
              IN  /\ g.den > 0
                  /\ prior > 0 => g.num * prior = (current - prior) * 100 * g.den
                  /\ (prior = 0 /\ current > 0) => g = Whole(100)
                  /\ (prior = 0 /\ current = 0) => g = Whole(0)

\* one table has a row with prior 200 and current 100 at -50, and a row with
\* prior 0 and current 50 at 100
C8_Witness ==
    /\ res.k = "quarterly"
    /\ \E q \in 1..Len(res.tables) : \E i, j \in 1..Len(res.tables[q].top) :
          /\ res.tables[q].top[i].f25_total = 200
          /\ res.tables[q].top[i].f26_total = 100
          /\ res.tables[q].top[i].growth = Whole(-50)
          /\ res.tables[q].top[j].f25_total = 0
          /\ res.tables[q].top[j].f26_total = 50
          /\ res.tables[q].top[j].growth = Whole(100)

Min(a, b) == IF a < b THEN a ELSE b

\* C9: with n the number of entities that have a nonzero total in either
\* window of the quarter, the table has min(n, 10) ranked rows, in descending
\* order of prior total; when n > 10 one remainder row holding the sums over
\* the entities without a row; and a market row holding the sums over all n.
C9_TopTenSplit ==
    res.k = "quarterly" =>
        \A q \in 1..Len(res.tables) :
            LET t == res.tables[q]
                Of(m, y) == SumWhere({}, LAMBDA r : InQuarter(r, y, q) /\ r.maker = m, Regs)
                OfAll(ms, y) ==
                    SumWhere({}, LAMBDA r : InQuarter(r, y, q) /\ r.maker \in ms, Regs)
                ents == {m \in MakersOf(Corpus) : Of(m, 2025) # 0 \/ Of(m, 2026) # 0}
                n == Cardinality(ents)
                shown == {t.top[i].maker : i \in 1..Len(t.top)}
            IN  /\ Len(t.top) = Min(n, 10)
                /\ Cardinality(shown) = Len(t.top)
                /\ shown \subseteq ents
                /\ \A i \in 1..Len(t.top) :
                      /\ t.top[i].f25_total = Of(t.top[i].maker, 2025)
                      /\ t.top[i].f26_total = Of(t.top[i].maker, 2026)
                      /\ \A j \in 1..Len(t.top) :
                            i < j => t.top[i].f25_total >= t.top[j].f25_total
                      /\ \A m \in ents \ shown : t.top[i].f25_total >= Of(m, 2025)
                /\ n > 10 =>
                      /\ Len(t.remaining) = 1
                      /\ t.remaining[1].f25_total = OfAll(ents \ shown, 2025)
                      /\ t.remaining[1].f26_total = OfAll(ents \ shown, 2026)
                /\ t.tiv.f25_total = OfAll(ents, 2025)
                /\ t.tiv.f26_total = OfAll(ents, 2026)

----------------------------------------------------------------------------
(* Claims on the corpus load                                               *)

\* the files of the data set that FILE_GLOB selects, with their year
GlobbedFiles ==
    UNION {{<<y, GlobDir(arg[y])[i]>> : i \in 1..Len(GlobDir(arg[y]))} : y \in DOMAIN arg}

\* the data set without the files that cannot be read
ReadableOnly ==
    [y \in DOMAIN arg |->
        [exists |-> arg[y].exists,
         files |-> SelectSeq(arg[y].files, LAMBDA f : f.readable)]]

\* the number of records the files yf = <<year, file>> of S parse to
RECURSIVE ParsedCount(_)
ParsedCount(S) ==
    IF S = {} THEN 0
    ELSE LET yf == CHOOSE x \in S : TRUE
         IN  Len(ParseExcelFormat(yf[2], yf[1])) + ParsedCount(S \ {yf})

\* C11: a file whose parse fails contributes no record and is left out of the
\* file list, and the load still holds every record of every other file: the
\* rebuild gives what it gives for the data set without the failing files.
C11_FileErrorIsolated ==
    res # Pending =>
        /\ \A yf \in GlobbedFiles :
              /\ ~yf[2].readable =>
                    /\ ParseExcelFormat(yf[2], yf[1]) = <<>>
                    /\ yf[2].name \notin SeqToSet(res.used)
              /\ \A k \in 1..Len(ParseExcelFormat(yf[2], yf[1])) :
                    /\ NormalizeRec(ParseExcelFormat(yf[2], yf[1])[k]) \in SeqToSet(res.rows)
                    /\ yf[2].name \in SeqToSet(res.used)
        /\ Len(res.rows) = ParsedCount(GlobbedFiles)
        /\ res = Rebuild(ReadableOnly)
        /\ cache.df.rows = res.rows /\ cache.files = res.used

\* a directory holds the unreadable workbook in front of one that parses, and
\* the records of the latter are loaded
C11_Witness ==
    /\ res # Pending
    /\ \E y \in DOMAIN arg :
          /\ Len(arg[y].files) = 2
          /\ ~arg[y].files[1].readable
          /\ arg[y].files[2].readable
          /\ Len(res.used) = 1
          /\ Len(res.rows) = 2
          /\ \A k \in 1..2 : res.rows[k].cal_year = y /\ res.rows[k].rto = MH("3","1")


----------------------------------------------------------------------------
(* Claims on the quarterly tables                                          *)

\* the entities that get a row in the table of quarter q: a positive total in
\* either window (line 860)
RankedEntities(q) ==
    {m \in MakersOf(Corpus) :
        \/ SumWhere({}, LAMBDA r : InQuarter(r, 2025, q) /\ r.maker = m, Regs) > 0
        \/ SumWhere({}, LAMBDA r : InQuarter(r, 2026, q) /\ r.maker = m, Regs) > 0}

\* C12 as stated: every quarterly table has its ranked rows, then a remaining
\* row at rank 11, then a market-total row at rank 12, whatever the number of
\* entities.
C12_FixedLayout ==
    res.k = "quarterly" =>
        \A q \in 1..Len(res.tables) :
            /\ \A i \in 1..Len(res.tables[q].top) : res.tables[q].top[i].rank = i
            /\ Len(res.tables[q].top) <= 10
            /\ Len(res.tables[q].remaining) = 1
            /\ res.tables[q].remaining[1].rank = 11
            /\ res.tables[q].tiv.rank = 12

\* C12 amended: the ranked rows carry the ranks 1..k with k <= 10, the
\* remaining row is there, at rank 11, exactly when more than 10 entities have
\* a positive total in either window, and the market-total row is always there
\* at rank 12.
C12_LayoutByCount ==
    res.k = "quarterly" =>
        \A q \in 1..Len(res.tables) :
            \E n \in {Cardinality(RankedEntities(q))} :
                /\ \A i \in 1..Len(res.tables[q].top) : res.tables[q].top[i].rank = i
                /\ Len(res.tables[q].top) = Min(n, 10)
                /\ n > 10 =>
                      /\ Len(res.tables[q].remaining) = 1
                      /\ res.tables[q].remaining[1].rank = 11
                /\ n <= 10 => res.tables[q].remaining = <<>>
                /\ res.tables[q].tiv.rank = 12

\* one page has a quarter with ten ranked rows and a remaining row, and a
\* quarter with fewer ranked rows, no remaining row and a market row at rank 12
C12_Witness ==
    /\ res.k = "quarterly"
    /\ \E q1, q2 \in 1..Len(res.tables) :
          /\ Len(res.tables[q1].top) = 10
          /\ Len(res.tables[q1].remaining) = 1
          /\ res.tables[q1].remaining[1].rank = 11
          /\ Len(res.tables[q2].top) \in 1..9
          /\ res.tables[q2].remaining = <<>>
          /\ res.tables[q2].tiv.rank = 12

\* C13: the growth of the remaining row follows the rule of the entity rows:
\* (current - prior) / prior * 100 when prior > 0, 100 when prior = 0 and
\* current > 0, else 0.
C13_RemainingGrowth ==
    res.k = "quarterly" =>
        \A q \in 1..Len(res.tables) : \A i \in 1..Len(res.tables[q].remaining) :
            LET prior == res.tables[q].remaining[i].f25_total
                current == res.tables[q].remaining[i].f26_total
                g == res.tables[q].remaining[i].growth
            IN  /\ g.den > 0
                /\ prior > 0 => g.num * prior = (current - prior) * 100 * g.den
                /\ (prior = 0 /\ current > 0) => g = Whole(100)
                /\ (prior <= 0 /\ current <= 0) => g = Whole(0)


----------------------------------------------------------------------------
(* Claims on the sheet parser.  Rows and columns are counted from 0, as in *)
(* the source; the expected records are described cell by cell.            *)

Grid == arg.fp.grid
GridRows == 0..(Len(Grid) - 1)
GridCols == 0..((IF Grid = <<>> THEN 0 ELSE Len(Grid[1])) - 1)
CellAt(r, c) == Grid[r + 1][c + 1]
Blank(r, c) == CellAt(r, c) = NaN

\* the trimmed, upper-cased text of a cell is a month abbreviation
IsLabel(r, c) == ~Blank(r, c) /\ Upper(Strip(StrOf(CellAt(r, c)))) \in MONTH_SET
LabelOf(r, c) == Upper(Strip(StrOf(CellAt(r, c))))

Least(S) == CHOOSE x \in S : \A y \in S : x <= y
RankIn(S, x) == Cardinality({y \in S : y < x})

\* the rows among the first 5 that hold a month label
HeaderRows == {r \in GridRows : r < 5 /\ \E c \in GridCols : IsLabel(r, c)}
Header == Least(HeaderRows)
LabelCols == {c \in GridCols : IsLabel(Header, c)}
EntityCol == IF Least(LabelCols) = 0 THEN 1 ELSE Least(LabelCols) - 1
EntityName(r) == Collapse(StrOf(CellAt(r, EntityCol)))

\* the rows below the header whose entity cell is not blank and, collapsed,
\* has at least 2 characters
DataRows ==
    {r \in GridRows :
        /\ r > Header
        /\ EntityCol \in GridCols
        /\ ~Blank(r, EntityCol)
        /\ Len(EntityName(r)) >= 2}

Region == ExtractRtoFromFilename(arg.fp.name)
Parsed == res # Pending /\ HeaderRows # {} /\ Region # None

\* C14: with a header row and a region code, the parse emits one record for
\* every pair of a data row (entity cell not blank, at least 2 characters
\* collapsed) and a month column, counts of 0 included, row by row and column
\* by column, and nothing else; each record holds the calendar year, the
\* region code and the collapsed entity name.
C14_OneRecordPerPair ==
    Parsed =>
        LET rows == DataRows
            cols == LabelCols
            hdr == Header
            rto == Region.s
        IN  /\ Len(res.rows) = Cardinality(rows) * Cardinality(cols)
            /\ \A r \in rows, c \in cols :
                  res.rows[RankIn(rows, r) * Cardinality(cols) + RankIn(cols, c) + 1]
                      = [cal_year |-> arg.cal_year, rto |-> rto,
                         maker |-> EntityName(r), month |-> LabelOf(hdr, c),
                         regs |-> SafeInt(CellAt(r, c)).value]

\* a sheet whose rows below the header are a maker with a blank count, a maker
\* with the count 12 and a maker of one character: two records, one of count 0
C14_Witness ==
    /\ Parsed
    /\ Cardinality({r \in GridRows : r > Header}) = 3
    /\ Cardinality(DataRows) = 2
    /\ Len(res.rows) = 2
    /\ res.rows[1].maker = <<"A"," ","B">> /\ res.rows[1].regs = 0
    /\ res.rows[2].maker = <<"Z","9">> /\ res.rows[2].regs = 12
    /\ res.rows[1].cal_year = 2024 /\ res.rows[1].rto = MH("3","1")

\* C15: the entity name is read from the column left of the lowest month
\* column, and from column 1 when the lowest month column is column 0; rows
\* where that column does not exist or is blank give no record.
C15_EntityColumn ==
    Parsed =>
        LET first == Least(LabelCols)
            col == IF first = 0 THEN 1 ELSE first - 1
            named == {r \in GridRows :
                         /\ r > Header
                         /\ col \in GridCols
                         /\ ~Blank(r, col)
                         /\ Len(Collapse(StrOf(CellAt(r, col)))) >= 2}
        IN  /\ col \notin GridCols => res.rows = <<>>
            /\ {res.rows[k].maker : k \in 1..Len(res.rows)}
                  = {Collapse(StrOf(CellAt(r, col))) : r \in named}
            /\ Len(res.rows) = Cardinality(named) * Cardinality(LabelCols)

\* the lowest month column is column 0 and the names come from column 1
C15_Witness ==
    /\ Parsed
    /\ Least(LabelCols) = 0
    /\ Cardinality(GridCols) = 2
    /\ Len(res.rows) = 3
    /\ res.rows[1].maker = <<"A"," ","B">>
    /\ res.rows[2].maker = <<"1","2">>

\* C16: the header row is the first of the first 5 rows that holds a month
\* label; without one the result is empty, and a label in row 6 or below is
\* never used as header.
C16_HeaderInFirstFive ==
    res # Pending =>
        /\ HeaderRows = {} => res.rows = <<>>
        /\ Parsed =>
              LET hdr == Header
                  labels == {LabelOf(hdr, c) : c \in {c \in GridCols : IsLabel(hdr, c)}}
                  names == {EntityName(r) : r \in DataRows}
              IN  /\ \A k \in 1..Len(res.rows) :
                        res.rows[k].month \in labels /\ res.rows[k].maker \in names
                  /\ names # {} => res.rows # <<>>

\* the header is found in the fifth row, the sixth row holds another month
\* label, and the records carry the month of the fifth row
C16_Witness ==
    /\ Parsed
    /\ Header = 4
    /\ 5 \in GridRows
    /\ \E c \in GridCols : IsLabel(5, c) /\ ~IsLabel(4, c)
    /\ res.rows # <<>>
    /\ \A k \in 1..Len(res.rows) : res.rows[k].month = JAN


----------------------------------------------------------------------------
(* Claims on the monthly pivot, the fiscal windows and the divisions       *)

\* the position of the first selected record of maker m in the corpus
FirstSeen(m) ==
    Least({k \in 1..Len(Corpus) : Selected(Corpus[k]) /\ Corpus[k].maker = m})

\* C17: the rows of the monthly pivot are in descending order of their total,
\* and rows of equal total are in the order in which their entities first
\* occur in the corpus.
C17_TieByEncounter ==
    res.k = "pivot" =>
        \A i, j \in 1..Len(res.rows) :
            i < j =>
                /\ res.rows[i].total >= res.rows[j].total
                /\ res.rows[i].total = res.rows[j].total =>
                      FirstSeen(res.rows[i].maker) < FirstSeen(res.rows[j].maker)


\* fiscal year F(y): April to December of y - 1 and January to March of y
InF(r, y) ==
    \/ r.cal_year = y - 1 /\ MonthOrder(r.month) >= 3
    \/ r.cal_year = y /\ MonthOrder(r.month) <= 2

QuarterOf(q) == {QUARTERS[q][j] : j \in 1..Len(QUARTERS[q])}

IsFraction(g) == g.den > 0

\* C19: no aggregation divides by zero: a pivot percentage is 0 when its
\* denominator (the month's column total, the grand total) is 0, a territory
\* market share is 0 when the market total of its window is 0, a territory
\* growth is 0 when the prior highlighted total is 0, and a quarterly growth
\* with prior 0 is 100 or 0.
C19_NoZeroDivision ==
    /\ res.k = "pivot" =>
          /\ \A i \in 1..Len(res.rows), j \in 1..Len(res.months) :
                /\ IsFraction(res.rows[i].pct[j])
                /\ res.total_row.count[j] = 0 => res.rows[i].pct[j] = Whole(0)
          /\ \A j \in 1..Len(res.months) :
                /\ IsFraction(res.total_row.pct[j])
                /\ res.total_row.total = 0 => res.total_row.pct[j] = Whole(0)
    /\ res.k = "territory" =>
          /\ \A g \in {res.ly_unnati_ms, res.ly_pacl_ms, res.cy_unnati_ms, res.cy_pacl_ms,
                       res.unnati_ms_change, res.pacl_ms_change,
                       res.unnati_growth, res.pacl_growth} : IsFraction(g)
          /\ res.ly.unnati_all + res.ly.pacl_all = 0 =>
                res.ly_unnati_ms = Whole(0) /\ res.ly_pacl_ms = Whole(0)
          /\ res.cy.unnati_all + res.cy.pacl_all = 0 =>
                res.cy_unnati_ms = Whole(0) /\ res.cy_pacl_ms = Whole(0)
          /\ res.ly.unnati_mah = 0 => res.unnati_growth = Whole(0)
          /\ res.ly.pacl_mah = 0 => res.pacl_growth = Whole(0)
    /\ res.k = "quarterly" =>
          \A q \in 1..Len(res.tables) :
              \A row \in {res.tables[q].top[i] : i \in 1..Len(res.tables[q].top)}
                         \cup {res.tables[q].remaining[i] :
                                  i \in 1..Len(res.tables[q].remaining)}
                         \cup {res.tables[q].tiv} :
                  /\ IsFraction(row.growth)
                  /\ row.f25_total = 0 => row.growth \in {Whole(100), Whole(0)}

\* the prior window of the territory page is empty and the current one is not:
\* the prior shares and the growth are 0
C19_Witness ==
    /\ res.k = "territory"
    /\ res.ly.unnati_all + res.ly.pacl_all = 0
    /\ res.cy.unnati_mah > 0
    /\ res.ly_unnati_ms = Whole(0) /\ res.ly_pacl_ms = Whole(0)
    /\ res.unnati_growth = Whole(0)

\* C20: once no rebuild is running, the cached months list holds exactly the
\* months of the cached corpus, each once, in calendar order, and every record
\* of the cached corpus has one of the 12 month abbreviations.
C20_MonthsOfCorpus ==
    ((\A t \in Threads : pc[t] = "idle") /\ cache.df # None) =>
        /\ SeqToSet(cache.months) = {cache.df.rows[k].month : k \in 1..Len(cache.df.rows)}
        /\ \A i, j \in 1..Len(cache.months) :
              i < j => MonthOrder(cache.months[i]) < MonthOrder(cache.months[j])
        /\ \A k \in 1..Len(cache.df.rows) : cache.df.rows[k].month \in SeqToSet(ALL_MONTHS)


----------------------------------------------------------------------------
(* Claims on requests that overlap a rebuild                               *)

\* C21: a dashboard request that runs alone renders the pivot from a corpus
\* and a months list of the same rebuild: the months list it uses holds
\* exactly the months of the corpus it aggregates.
C21_PivotOneRebuild ==
    \A t \in Threads :
        (pc[t] = "L747" /\ reqs = 1) =>
            SeqToSet(loc[t].months)
                = {loc[t].df.rows[k].month : k \in 1..Len(loc[t].df.rows)}

\* the rebuild of thread u has published its corpus and is still running
PublishedBy(u) ==
    /\ pc[u] \in {"L257", "L258", "L259"}
    /\ cache.wr.df = loc[u].new.id

\* C22: when rebuilds overlap, a rebuild that started earlier never overwrites
\* the corpus published by a rebuild that started later, and the refresh time
\* of the cache never decreases (the clock never goes back).
C22_LastStartedWins ==
    [][/\ clock' >= clock
       /\ cache'.last_load >= cache.last_load
       /\ \A t \in Threads :
             (pc[t] = "L256" /\ pc'[t] = "L257") =>
                 /\ \A u \in Threads \ {t} :
                       PublishedBy(u) => loc[u].now <= loc[t].now
                 /\ (cache.wr.df # 0 /\ cache.wr.last_load = cache.wr.df) =>
                       cache.last_load <= loc[t].now
      ]_vars

----------------------------------------------------------------------------
(* Claims on the territory split as a partition                            *)

\* the records of window w that the territory page selects, those of the
\* regions outside the allocation table left out
ConfiguredWindow(w) ==
    SelectSeq(Corpus, LAMBDA r : /\ Selected(r)
                                 /\ InFiscal(r, WindowYear(w))
                                 /\ Configured(r.rto))

============================================================================
